---- MODULE Spec2Model ----
(***************************************************************************)
(* The Agent Skills Tester backend (src/backend/main.py): the in-memory    *)
(* tool and agent stores, their CRUD handlers, and the two-pass chat       *)
(* handler chat_with_agent.                                                *)
(*                                                                         *)
(* Texts (Python str) are sequences of one-character strings, so that the  *)
(* regular expression, str.lower, str.strip and the `in` tests of the code *)
(* are computed character by character.  Identifiers (uuid4 strings) are   *)
(* natural numbers: the n-th identifier issued is n, and 0 is a string a   *)
(* client made up, which uuid4 never returns.                              *)
(***************************************************************************)
EXTENDS Integers, Sequences, FiniteSets, TLC

(* ------------------------------ bounds --------------------------------- *)

\* CRUD requests served in one behaviour.
MaxOps == 2

\* Longest tool_ids list a client sends in an AgentCreate body.
MaxToolIds == 2

(* ------------------------- string literals ----------------------------- *)

ExampleToolName ==
  <<"E","n","t","e","r","p","r","i","s","e"," ","P","r","i","c","i","n","g"," ","S","t","r","a","t","e","g","y">>

ExampleToolDescription ==
  <<"A","c","t","i","v","a","t","e"," ","t","h","i","s"," ","f","o","r"," ","p","r","i","c","i","n","g"," ","q","u","e","s","t","i","o","n","s">>

ExampleToolPromptPiece ==
  <<"P","r","i","c","i","n","g"," ","P","l","a","y","b","o","o","k"," ","O","u","t","p","u","t","\n","\n","V","a","l","u","e"," ","M","e","t","r","i","c"," ","F","i","t"," ","C","h","e","c","k","\n","\n","E","v","a","l","u","a","t","e"," ","t","h","e"," ","p","r","o","d","u","c","t"," ","a","c","r","o","s","s"," ","t","h","r","e","e"," ","a","x","e","s",":"," ","u","s","a","g","e"," ","e","l","a","s","t","i","c","i","t","y",","," ","b","u","y","e","r"," ","f","a","m","i","l","i","a","r","i","t","y",","," ","s","c","a","l","a","b","i","l","i","t","y"," ","p","o","t","e","n","t","i","a","l",".","\n","\n","T","i","e","r"," ","L","o","g","i","c","\n","\n","P","r","o","p","o","s","e"," ","a"," ","t","h","r","e","e"," ","t","i","e","r"," ","s","t","r","u","c","t","u","r","e"," ","w","i","t","h"," ","n","a","m","e","d"," ","t","i","e","r","s"," ","u","s","i","n","g"," ","t","h","i","s"," ","n","a","m","i","n","g"," ","p","a","t","t","e","r","n",":"," ","C","o","r","e",","," ","G","r","o","w","t","h",","," ","S","c","a","l","e",".","\n","\n","M","a","r","g","i","n"," ","G","u","a","r","d","r","a","i","l","s","\n","\n","P","r","o","v","i","d","e"," ","a"," ","t","a","r","g","e","t"," ","g","r","o","s","s"," ","m","a","r","g","i","n"," ","r","a","n","g","e"," ","a","n","d"," ","a"," ","d","i","s","c","o","u","n","t"," ","b","o","u","n","d","a","r","y",".","\n","\n","E","x","p","a","n","s","i","o","n"," ","H","o","o","k","s","\n","\n","I","d","e","n","t","i","f","y"," ","t","w","o"," ","s","p","e","c","i","f","i","c"," ","l","e","v","e","r","s"," ","t","h","a","t"," ","r","a","i","s","e"," ","A","C","V"," ","w","i","t","h","i","n"," ","1","2"," ","m","o","n","t","h","s",".","\n","\n","M","i","c","r","o"," ","C","a","s","e","\n","\n","D","e","l","i","v","e","r"," ","a"," ","s","h","o","r","t",","," ","p","r","o","d","u","c","t"," ","s","p","e","c","i","f","i","c"," ","e","x","a","m","p","l","e"," ","i","n"," ","t","w","o"," ","s","e","n","t","e","n","c","e","s",".">>

ExampleAgentName ==
  <<"B","u","s","i","n","e","s","s"," ","C","o","p","i","l","o","t">>

ExampleSystemPrompt ==
  <<"Y","o","u"," ","p","r","o","v","i","d","e"," ","c","l","e","a","r",","," ","c","o","n","c","i","s","e"," ","b","u","s","i","n","e","s","s"," ","g","u","i","d","a","n","c","e","."," ","K","e","e","p"," ","r","e","s","p","o","n","s","e","s"," ","b","r","i","e","f",","," ","s","t","r","u","c","t","u","r","e","d"," ","w","h","e","n"," ","h","e","l","p","f","u","l",","," ","a","n","d"," ","g","r","o","u","n","d","e","d"," ","i","n"," ","s","t","a","n","d","a","r","d"," ","b","u","s","i","n","e","s","s"," ","l","o","g","i","c","."," ","R","e","q","u","e","s","t"," ","m","i","s","s","i","n","g"," ","d","e","t","a","i","l","s"," ","o","n","l","y"," ","w","h","e","n"," ","r","e","q","u","i","r","e","d",".">>

OpenaiProvider ==
  <<"o","p","e","n","a","i">>

AnthropicProvider ==
  <<"a","n","t","h","r","o","p","i","c">>

Gpt4 ==
  <<"g","p","t","-","4">>

AvailableToolsHeader ==
  <<"\n","\n","A","v","a","i","l","a","b","l","e"," ","T","o","o","l","s",":","\n">>

UseToolInstruction ==
  <<"\n","\n","T","o"," ","u","s","e"," ","a"," ","t","o","o","l",","," ","i","n","c","l","u","d","e"," ","[","U","S","E","_","T","O","O","L",":"," ","T","o","o","l","N","a","m","e","]"," ","i","n"," ","y","o","u","r"," ","r","e","s","p","o","n","s","e","."," ","T","h","e"," ","t","o","o","l","'","s"," ","d","e","t","a","i","l","e","d"," ","c","o","n","t","e","n","t"," ","w","i","l","l"," ","t","h","e","n"," ","b","e"," ","p","r","o","v","i","d","e","d"," ","t","o"," ","y","o","u","."," ","D","o"," ","n","o","t"," ","m","e","n","t","i","o","n"," ","t","h","i","s"," ","f","o","r","m","a","t"," ","t","o"," ","t","h","e"," ","u","s","e","r",".">>

NaturalInstruction ==
  <<"\n","\n","U","s","e"," ","t","h","e"," ","i","n","f","o","r","m","a","t","i","o","n"," ","p","r","o","v","i","d","e","d"," ","a","b","o","v","e"," ","n","a","t","u","r","a","l","l","y"," ","i","n"," ","y","o","u","r"," ","r","e","s","p","o","n","s","e","."," ","D","o"," ","n","o","t"," ","m","e","n","t","i","o","n"," ","t","h","a","t"," ","y","o","u"," ","a","r","e"," ","u","s","i","n","g"," ","t","o","o","l","s"," ","o","r"," ","r","e","f","e","r","e","n","c","i","n","g"," ","s","p","e","c","i","f","i","c"," ","r","e","s","o","u","r","c","e","s"," ","-"," ","j","u","s","t"," ","p","r","o","v","i","d","e"," ","a"," ","h","e","l","p","f","u","l"," ","a","n","s","w","e","r"," ","u","s","i","n","g"," ","t","h","e"," ","a","v","a","i","l","a","b","l","e"," ","i","n","f","o","r","m","a","t","i","o","n",".">>

UserCue ==
  <<"\n","\n","U","s","e","r",":"," ">>

AssistantCue ==
  <<"\n","\n","A","s","s","i","s","t","a","n","t",":">>

MarkerHead ==
  <<"[","u","s","e","_","t","o","o","l",":">>

OpenaiPlaceholder ==
  <<"y","o","u","r","_","o","p","e","n","a","i","_","a","p","i","_","k","e","y","_","h","e","r","e">>

AnthropicPlaceholder ==
  <<"y","o","u","r","_","a","n","t","h","r","o","p","i","c","_","a","p","i","_","k","e","y","_","h","e","r","e">>

AgentNotFound ==
  <<"A","g","e","n","t"," ","n","o","t"," ","f","o","u","n","d">>

ToolNotFound ==
  <<"T","o","o","l"," ","n","o","t"," ","f","o","u","n","d">>

ModelNotSet ==
  <<"A","g","e","n","t"," ","m","o","d","e","l"," ","i","s"," ","n","o","t"," ","s","e","t","."," ","P","l","e","a","s","e"," ","s","e","l","e","c","t"," ","a"," ","m","o","d","e","l"," ","f","o","r"," ","t","h","i","s"," ","a","g","e","n","t",".">>

OpenaiKeyMissing ==
  <<"O","p","e","n","A","I"," ","A","P","I"," ","k","e","y"," ","i","s"," ","n","o","t"," ","c","o","n","f","i","g","u","r","e","d","."," ","P","l","e","a","s","e"," ","s","e","t"," ","O","P","E","N","A","I","_","A","P","I","_","K","E","Y"," ","i","n"," ","y","o","u","r"," ",".","e","n","v"," ","f","i","l","e",".">>

AnthropicKeyMissing ==
  <<"A","n","t","h","r","o","p","i","c"," ","A","P","I"," ","k","e","y"," ","i","s"," ","n","o","t"," ","c","o","n","f","i","g","u","r","e","d","."," ","P","l","e","a","s","e"," ","s","e","t"," ","A","N","T","H","R","O","P","I","C","_","A","P","I","_","K","E","Y"," ","i","n"," ","y","o","u","r"," ",".","e","n","v"," ","f","i","l","e",".">>

UnsupportedProvider ==
  <<"U","n","s","u","p","p","o","r","t","e","d"," ","p","r","o","v","i","d","e","r",":"," ">>

AuthFailedPrefix ==
  <<"A","P","I"," ","a","u","t","h","e","n","t","i","c","a","t","i","o","n"," ","f","a","i","l","e","d",":"," ">>

AuthFailedSuffix ==
  <<"."," ","P","l","e","a","s","e"," ","c","h","e","c","k"," ","y","o","u","r"," ","A","P","I"," ","k","e","y",".">>

ModelErrorPrefix ==
  <<"M","o","d","e","l"," ","e","r","r","o","r",":"," ">>

ModelErrorSuffix ==
  <<"."," ","P","l","e","a","s","e"," ","c","h","e","c","k"," ","t","h","e"," ","m","o","d","e","l"," ","n","a","m","e",".">>

LLMErrorPrefix ==
  <<"L","L","M"," ","A","P","I"," ","e","r","r","o","r",":"," ">>

\* the separator of prompt.split("User:") (lines 167-168, 174-175)
UserSep ==
  <<"U","s","e","r",":">>

\* the text removed by .replace("Assistant:", "") (lines 168, 175)
AssistantSep ==
  <<"A","s","s","i","s","t","a","n","t",":">>

KwApiKey ==
  <<"a","p","i","_","k","e","y">>

KwAuthentication ==
  <<"a","u","t","h","e","n","t","i","c","a","t","i","o","n">>

KwModel ==
  <<"m","o","d","e","l">>

(* --------------------------- str operations ---------------------------- *)

Whitespace == {" ", "\n", "\t"}

Uppers ==
  <<"A","B","C","D","E","F","G","H","I","J","K","L","M","N","O","P","Q","R","S","T","U","V","W","X","Y","Z">>

Lowers ==
  <<"a","b","c","d","e","f","g","h","i","j","k","l","m","n","o","p","q","r","s","t","u","v","w","x","y","z">>

LowerTable ==
  [c \in {Uppers[i] : i \in 1..Len(Uppers)} |->
     Lowers[CHOOSE i \in 1..Len(Uppers) : Uppers[i] = c]]

LowerChar(c) == IF c \in DOMAIN LowerTable THEN LowerTable[c] ELSE c

\* str.lower()
lower(s) == [i \in 1..Len(s) |-> LowerChar(s[i])]

SetMin(S) == CHOOSE x \in S : \A y \in S : x <= y

SetMax(S) == CHOOSE x \in S : \A y \in S : x >= y

\* str.strip(): leading and trailing whitespace removed
strip(s) ==
  LET keep == {i \in 1..Len(s) : s[i] \notin Whitespace}
  IN  IF keep = {} THEN <<>> ELSE SubSeq(s, SetMin(keep), SetMax(keep))

\* needle in hay
Contains(hay, needle) ==
  \E i \in 1..(Len(hay) - Len(needle) + 1) :
     \A k \in 1..Len(needle) : hay[i + k - 1] = needle[k]

\* sep.join(list)
RECURSIVE Join(_, _)
Join(sep, list) ==
  IF list = <<>> THEN <<>>
  ELSE IF Len(list) = 1 THEN list[1]
  ELSE list[1] \o sep \o Join(sep, Tail(list))

\* sep occurs in s at index i
OccursAt(s, sep, i) ==
  /\ i + Len(sep) - 1 <= Len(s)
  /\ \A k \in 1..Len(sep) : s[i + k - 1] = sep[k]

\* index of the first occurrence of sep in s at or after i, or 0
NextOccurrence(s, sep, i) ==
  LET at == {j \in i..Len(s) : OccursAt(s, sep, j)}
  IN  IF at = {} THEN 0 ELSE SetMin(at)

RECURSIVE SplitFrom(_, _, _)
SplitFrom(s, sep, i) ==
  LET j == NextOccurrence(s, sep, i)
  IN  IF j = 0 THEN <<SubSeq(s, i, Len(s))>>
      ELSE <<SubSeq(s, i, j - 1)>> \o SplitFrom(s, sep, j + Len(sep))

\* str.split(sep), sep not empty: the pieces between the occurrences of sep,
\* taken left to right without overlap
split(s, sep) == SplitFrom(s, sep, 1)

\* str.replace(old, new), old not empty
replace(s, old, new) == Join(new, split(s, old))

(* ------- the marker pattern \[USE_TOOL:\s*([^\]]+)\] (IGNORECASE) ------- *)
(* At a position i the pattern can match in one way only: the ten literal  *)
(* characters "[USE_TOOL:" in any letter case, then everything up to the   *)
(* first "]" after them, which must be at least one character ([^\]]+      *)
(* cannot cross a "]").  Group 1 is that stretch without the leading       *)
(* whitespace \s* takes greedily; when the stretch is all whitespace, \s*  *)
(* gives one character back and group 1 is the last whitespace character.  *)

HeadAt(s, i) ==
  /\ i + Len(MarkerHead) - 1 <= Len(s)
  /\ \A k \in 1..Len(MarkerHead) : LowerChar(s[i + k - 1]) = MarkerHead[k]

FirstClose(s, j) ==
  LET ks == {k \in j..Len(s) : s[k] = "]"}
  IN  IF ks = {} THEN 0 ELSE SetMin(ks)

\* index of the "]" ending the match that starts at i, or 0 when none starts there
MatchEnd(s, i) ==
  IF HeadAt(s, i)
  THEN LET j == i + Len(MarkerHead)
           k == FirstClose(s, j)
       IN  IF k > j THEN k ELSE 0
  ELSE 0

\* group 1 of the match s[i..k]
MarkerGroup(s, i, k) ==
  LET j    == i + Len(MarkerHead)
      nws  == {n \in j..(k - 1) : s[n] \notin Whitespace}
      from == IF nws = {} THEN k - 1 ELSE SetMin(nws)
  IN  SubSeq(s, from, k - 1)

RECURSIVE FindallFrom(_, _)
FindallFrom(s, i) ==
  IF i > Len(s) THEN <<>>
  ELSE LET k == MatchEnd(s, i)
       IN  IF k > 0 THEN <<MarkerGroup(s, i, k)>> \o FindallFrom(s, k + 1)
           ELSE FindallFrom(s, i + 1)

\* re.findall(r'\[USE_TOOL:\s*([^\]]+)\]', s, re.IGNORECASE)
re_findall(s) == FindallFrom(s, 1)

RECURSIVE SubFrom(_, _)
SubFrom(s, i) ==
  IF i > Len(s) THEN <<>>
  ELSE LET k == MatchEnd(s, i)
       IN  IF k > 0 THEN SubFrom(s, k + 1)
           ELSE <<s[i]>> \o SubFrom(s, i + 1)

\* re.sub(r'\[USE_TOOL:\s*[^\]]+\]', '', s, flags=re.IGNORECASE)
re_sub(s) == SubFrom(s, 1)

\* the expression of lines 373 and 378
strip_markers(s) == strip(re_sub(s))

(* --------------------------- prompt composer --------------------------- *)

\* tools_db is a dict: a function whose domain is the set of stored ids.
\* ToolLine that also shows the tool's content
ToolLineWithPiece(tool) ==
  <<"-", " ">> \o tool.name \o <<":", " ">> \o tool.description
    \o <<":", " ">> \o tool.prompt_piece

ToolLine(tool) == <<"-", " ">> \o tool.name \o <<":", " ">> \o tool.description

\* the ids of tool_ids that pass `if tool_id in tools_db`, in order
PresentIds(db, tool_ids) == SelectSeq(tool_ids, LAMBDA id : id \in DOMAIN db)

build_prompt_with_tool_metadata(db, system_prompt, user_message, tool_ids) ==
  LET present   == PresentIds(db, tool_ids)
      tool_list == [i \in 1..Len(present) |-> ToolLine(db[present[i]])]
      tools_section ==
        IF Len(tool_list) > 0
        THEN AvailableToolsHeader \o Join(<<"\n">>, tool_list) \o UseToolInstruction
        ELSE <<>>
  IN  system_prompt \o tools_section \o UserCue \o user_message \o AssistantCue

\* ToolPiece that fills the block with the line of the metadata prompt
ToolPieceDescription(tool) ==
  <<"\n", "\n", "[">> \o tool.name \o <<"]", "\n">> \o tool.description

ToolPiece(tool) ==
  <<"\n", "\n", "[">> \o tool.name \o <<"]", "\n">> \o tool.prompt_piece

build_prompt_with_tool_content(db, system_prompt, user_message, tool_ids) ==
  LET present     == PresentIds(db, tool_ids)
      tool_pieces == [i \in 1..Len(present) |-> ToolPiece(db[present[i]])]
      tools_section ==
        IF Len(tool_pieces) > 0 THEN Join(<<"\n">>, tool_pieces) ELSE <<>>
      instruction ==
        IF Len(tools_section) > 0 THEN NaturalInstruction ELSE <<>>
  IN  system_prompt \o tools_section \o instruction
        \o UserCue \o user_message \o AssistantCue

(* ------------------------------ call_llm ------------------------------ *)

\* the system text handed to the provider client (lines 167, 174)
system_content(prompt) == strip(split(prompt, UserSep)[1])

\* the user text handed to the provider client (lines 168, 175)
user_content(prompt) ==
  LET pieces == split(prompt, UserSep)
  IN  strip(replace(pieces[Len(pieces)], AssistantSep, <<>>))

(* ------------------------- request bodies, inputs ---------------------- *)

\* ToolCreate bodies the clients send
ToolInputs ==
  { [name |-> <<"x">>, description |-> <<"d">>, prompt_piece |-> <<"p">>],
    [name |-> <<"e","n","t","e","r","p","r","i","s","e"," ","p","r","i","c","i","n","g"," ","s","t","r","a","t","e","g","y">>,
     description |-> <<"d">>, prompt_piece |-> <<"q">>] }

\* LLMModel bodies: a supported provider with a model, a blank and an empty
\* model name, and a provider call_llm does not know
LLMModels ==
  { [provider |-> OpenaiProvider, model |-> Gpt4],
    [provider |-> AnthropicProvider,
     model |-> <<"c","l","a","u","d","e","-","3","-","o","p","u","s","-","2","0","2","4","0","2","2","9">>],
    [provider |-> OpenaiProvider, model |-> <<" ">>],
    [provider |-> AnthropicProvider, model |-> <<>>],
    [provider |-> <<"g","e","m","i","n","i">>, model |-> Gpt4] }

\* sequences over S of length at most n
RECURSIVE SeqsUpTo(_, _)
SeqsUpTo(S, n) ==
  IF n = 0 THEN {<<>>}
  ELSE LET shorter == SeqsUpTo(S, n - 1)
       IN  shorter \cup {Append(q, x) : q \in shorter, x \in S}

\* AgentCreate bodies: every model selector with an empty tool list, and the
\* example agent's selector with every list of tool ids issued so far
AgentBody(llm_model, tool_ids) ==
  [name |-> <<"n">>, llm_model |-> llm_model, system_prompt |-> <<"s">>,
   tool_ids |-> tool_ids]

AgentInputs(known_tools) ==
  {AgentBody(m, <<>>) : m \in LLMModels}
    \cup {AgentBody([provider |-> OpenaiProvider, model |-> Gpt4], ids) :
            ids \in SeqsUpTo(1..known_tools, MaxToolIds)}

UserMessages == { <<"h","i">> }

\* What the provider client does with one request: it returns a completion,
\* returns no text (message.content is None), or raises with a message.
Completions ==
  { <<"L","e","t"," ","m","e"," ","c","h","e","c","k","."," ","[","U","S","E","_","T","O","O","L",":"," ","E","n","t","e","r","p","r","i","s","e"," ","P","r","i","c","i","n","g"," ","S","t","r","a","t","e","g","y","]">>,
    <<"[","u","s","e","_","t","o","o","l",":","x"," ","]"," ","[","U","S","E","_","T","O","O","L",":"," ","e","n","t","e","r","p","r","i","s","e"," ","p","r","i","c","i","n","g"," ","s","t","r","a","t","e","g","y","]"," ","[","U","S","E","_","T","O","O","L",":"," ","X","]">>,
    <<"[","U","S","E","_","T","O","O","L",":"," ","U","n","k","n","o","w","n","]"," ","o","k"," ">>,
    <<"[","U","S","E","_","[","U","S","E","_","T","O","O","L",":"," ","x","]","T","O","O","L",":"," ","y","]">>,
    <<"o","k">> }

ProviderMessages ==
  { <<"i","n","v","a","l","i","d","_","a","p","i","_","k","e","y">>,
    <<"m","o","d","e","l","_","n","o","t","_","f","o","u","n","d">>,
    <<"C","o","n","n","e","c","t","i","o","n"," ","e","r","r","o","r",".">> }

\* str(TypeError) of re.findall / re.sub applied to None
NoneTypeMessage ==
  <<"e","x","p","e","c","t","e","d"," ","s","t","r","i","n","g"," ","o","r"," ","b","y","t","e","s","-","l","i","k","e"," ","o","b","j","e","c","t",","," ","g","o","t"," ","'","N","o","n","e","T","y","p","e","'">>

ProviderResults ==
  {[kind |-> "text", text |-> c] : c \in Completions}
    \cup {[kind |-> "none", text |-> <<>>]}
    \cup {[kind |-> "raise", text |-> m] : m \in ProviderMessages}

\* os.getenv(name): the variable is unset (None) or holds a text
Unset == [set |-> FALSE, text |-> <<>>]

Value(text) == [set |-> TRUE, text |-> text]

\* The environments the process runs in: both keys usable, both unusable
\* for being empty or unset, both unusable for holding the placeholder.
\* openai.OpenAI(api_key=None) raises while the module is loaded (line 25),
\* so OPENAI_API_KEY is never unset in a running process;
\* Anthropic(api_key=None) is accepted (line 26).
Environments ==
  { [OPENAI_API_KEY |-> Value(<<"s","k","-","l","i","v","e">>),
     ANTHROPIC_API_KEY |-> Value(<<"s","k","-","l","i","v","e">>)],
    [OPENAI_API_KEY |-> Value(<<>>), ANTHROPIC_API_KEY |-> Unset],
    [OPENAI_API_KEY |-> Value(OpenaiPlaceholder),
     ANTHROPIC_API_KEY |-> Value(AnthropicPlaceholder)] }

(* ------------------------------- state --------------------------------- *)

VARIABLES
  tools_db,     \* line 30: tool id -> tool record
  agents_db,    \* line 29: agent id -> agent record
  tool_uuids,   \* how many tool ids uuid4 has issued (lines 42, 212)
  agent_uuids,  \* how many agent ids uuid4 has issued (lines 72, 259)
  environ,      \* the process environment read by os.getenv (lines 322, 329)
  turns,        \* the chat requests: each one's locals and position
  ops,          \* CRUD requests served so far
  http_response \* the status the last CRUD request was answered with

vars ==
  <<tools_db, agents_db, tool_uuids, agent_uuids, environ, turns, ops,
    http_response>>

\* The chat requests of a behaviour, numbered in the order they arrive.
Turns == DOMAIN turns

NoAgent ==
  [id |-> 0, name |-> <<>>, llm_model |-> [provider |-> <<>>, model |-> <<>>],
   system_prompt |-> <<>>, tool_ids |-> <<>>]

Pending == [kind |-> "pending"]

\* the dict of lines 405-410
ChatResult(response, tools_used, tool_names, full_prompt) ==
  [kind |-> "ok", response |-> response, tools_used |-> tools_used,
   tools_used_names |-> tool_names, full_prompt |-> full_prompt]

\* raise HTTPException(status_code=..., detail=...) leaving the handler
HTTPError(status_code, detail) ==
  [kind |-> "error", status_code |-> status_code, detail |-> detail]

\* a handler that returns: FastAPI answers with status 200 and the returned
\* value as the body (the record stored, or a message)
Ok == [kind |-> "ok", status_code |-> 200]

\* no CRUD request has been answered yet
NoResponse == [kind |-> "none"]

\* A request that has not arrived yet.  calls lists the prompts handed to a
\* provider client (lines 164, 176) and results what each call came back
\* with; disclosed lists the ids whose line is in
\* the pass-1 prompt.
IdleTurn ==
  [pc |-> "idle", agent_id |-> 0, user_message |-> <<>>, agent |-> NoAgent,
   initial_prompt |-> <<>>, disclosed |-> <<>>, initial_response |-> <<>>,
   requested_tool_ids |-> <<>>, final_prompt |-> <<>>, final_response |-> <<>>,
   calls |-> <<>>, results |-> <<>>, outcome |-> Pending]

\* initialize_examples (lines 33-86): one tool, one agent that uses it
Init ==
  /\ tools_db = (1 :> [id |-> 1, name |-> ExampleToolName,
                       description |-> ExampleToolDescription,
                       prompt_piece |-> ExampleToolPromptPiece])
  /\ agents_db = (1 :> [id |-> 1, name |-> ExampleAgentName,
                        llm_model |-> [provider |-> OpenaiProvider, model |-> Gpt4],
                        system_prompt |-> ExampleSystemPrompt,
                        tool_ids |-> <<1>>])
  /\ tool_uuids = 1
  /\ agent_uuids = 1
  /\ environ \in Environments
  /\ turns = [t \in {1} |-> IdleTurn]
  /\ ops = 0
  /\ http_response = NoResponse

(* ------------------------------ the stores ----------------------------- *)

\* A chat is still to arrive or to be answered.  CRUD requests served after
\* the last answer cannot change any answer and are left out.
ChatOpen == \E t \in Turns : turns[t].pc # "done"

Put(db, id, record) ==
  [k \in DOMAIN db \cup {id} |-> IF k = id THEN record ELSE db[k]]

Del(db, id) == [k \in DOMAIN db \ {id} |-> db[k]]

ToolRecord(tool_id, tool) ==
  [id |-> tool_id, name |-> tool.name, description |-> tool.description,
   prompt_piece |-> tool.prompt_piece]

AgentRecord(agent_id, agent) ==
  [id |-> agent_id, name |-> agent.name, llm_model |-> agent.llm_model,
   system_prompt |-> agent.system_prompt, tool_ids |-> agent.tool_ids]

create_tool(tool) ==
  /\ ops < MaxOps
  /\ ChatOpen
  /\ tools_db' = Put(tools_db, tool_uuids + 1, ToolRecord(tool_uuids + 1, tool))
  /\ tool_uuids' = tool_uuids + 1
  /\ http_response' = Ok
  /\ ops' = ops + 1
  /\ UNCHANGED <<agents_db, agent_uuids, environ, turns>>

\* lines 227-232; the body of the answer is the record stored
get_tool(tool_id) ==
  /\ ops < MaxOps
  /\ ChatOpen
  /\ http_response' = IF tool_id \notin DOMAIN tools_db
                      THEN HTTPError(404, ToolNotFound)
                      ELSE Ok
  /\ ops' = ops + 1
  /\ UNCHANGED <<tools_db, agents_db, tool_uuids, agent_uuids, environ, turns>>

\* update_tool without the test of line 237: the item assignment stores the
\* record under an id that was not there
update_tool_upsert(tool_id, tool) ==
  /\ ops < MaxOps
  /\ ChatOpen
  /\ tools_db' = Put(tools_db, tool_id, ToolRecord(tool_id, tool))
  /\ http_response' = Ok
  /\ ops' = ops + 1
  /\ UNCHANGED <<agents_db, tool_uuids, agent_uuids, environ, turns>>

update_tool(tool_id, tool) ==
  /\ ops < MaxOps
  /\ ChatOpen
  /\ tools_db' = IF tool_id \notin DOMAIN tools_db
                 THEN tools_db                               \* 404
                 ELSE Put(tools_db, tool_id, ToolRecord(tool_id, tool))
  /\ http_response' = IF tool_id \notin DOMAIN tools_db
                      THEN HTTPError(404, ToolNotFound)
                      ELSE Ok
  /\ ops' = ops + 1
  /\ UNCHANGED <<agents_db, tool_uuids, agent_uuids, environ, turns>>

\* delete_tool that also takes the id off every agent's tool_ids
delete_tool_cascade(tool_id) ==
  /\ ops < MaxOps
  /\ ChatOpen
  /\ tools_db' = IF tool_id \notin DOMAIN tools_db
                 THEN tools_db
                 ELSE Del(tools_db, tool_id)
  /\ agents_db' =
       IF tool_id \notin DOMAIN tools_db
       THEN agents_db
       ELSE [a \in DOMAIN agents_db |->
               [agents_db[a] EXCEPT
                  !.tool_ids = SelectSeq(@, LAMBDA id : id # tool_id)]]
  /\ http_response' = IF tool_id \notin DOMAIN tools_db
                      THEN HTTPError(404, ToolNotFound)
                      ELSE Ok
  /\ ops' = ops + 1
  /\ UNCHANGED <<tool_uuids, agent_uuids, environ, turns>>

delete_tool(tool_id) ==
  /\ ops < MaxOps
  /\ ChatOpen
  /\ tools_db' = IF tool_id \notin DOMAIN tools_db
                 THEN tools_db                               \* 404
                 ELSE Del(tools_db, tool_id)
  /\ http_response' = IF tool_id \notin DOMAIN tools_db
                      THEN HTTPError(404, ToolNotFound)
                      ELSE Ok
  /\ ops' = ops + 1
  /\ UNCHANGED <<agents_db, tool_uuids, agent_uuids, environ, turns>>

create_agent(agent) ==
  /\ ops < MaxOps
  /\ ChatOpen
  /\ agents_db' = Put(agents_db, agent_uuids + 1, AgentRecord(agent_uuids + 1, agent))
  /\ agent_uuids' = agent_uuids + 1
  /\ http_response' = Ok
  /\ ops' = ops + 1
  /\ UNCHANGED <<tools_db, tool_uuids, environ, turns>>

\* lines 275-280; the body of the answer is the record stored
get_agent(agent_id) ==
  /\ ops < MaxOps
  /\ ChatOpen
  /\ http_response' = IF agent_id \notin DOMAIN agents_db
                      THEN HTTPError(404, AgentNotFound)
                      ELSE Ok
  /\ ops' = ops + 1
  /\ UNCHANGED <<tools_db, agents_db, tool_uuids, agent_uuids, environ, turns>>

update_agent(agent_id, agent) ==
  /\ ops < MaxOps
  /\ ChatOpen
  /\ agents_db' = IF agent_id \notin DOMAIN agents_db
                  THEN agents_db                             \* 404
                  ELSE Put(agents_db, agent_id, AgentRecord(agent_id, agent))
  /\ http_response' = IF agent_id \notin DOMAIN agents_db
                      THEN HTTPError(404, AgentNotFound)
                      ELSE Ok
  /\ ops' = ops + 1
  /\ UNCHANGED <<tools_db, tool_uuids, agent_uuids, environ, turns>>

delete_agent(agent_id) ==
  /\ ops < MaxOps
  /\ ChatOpen
  /\ agents_db' = IF agent_id \notin DOMAIN agents_db
                  THEN agents_db                             \* 404
                  ELSE Del(agents_db, agent_id)
  /\ http_response' = IF agent_id \notin DOMAIN agents_db
                      THEN HTTPError(404, AgentNotFound)
                      ELSE Ok
  /\ ops' = ops + 1
  /\ UNCHANGED <<tools_db, tool_uuids, agent_uuids, environ, turns>>

(* ------------------------------- the chat ------------------------------ *)
(* chat_with_agent is a coroutine: it runs without interruption from one   *)
(* await to the next, and other requests are served while it waits for a   *)
(* provider at `await call_llm(...)` (lines 348, 371).  Its steps are      *)
(* chat_start (lines 307-348, up to the first provider request),           *)
(* pass1_done (lines 348-371 or 348-410) and pass2_done (lines 371-410).   *)
(* call_llm uses the blocking clients of lines 25-26, which hold the event *)
(* loop while they wait; the model lets other requests in at both awaits   *)
(* all the same, as any awaitable provider call would: every behaviour of  *)
(* the blocking deployment is one of the model's.                          *)

Finish(turn, outcome) == [turn EXCEPT !.pc = "done", !.outcome = outcome]

\* `not s or s.strip() == ""` (line 314)
Blank(s) == Len(s) = 0 \/ Len(strip(s)) = 0

\* `not api_key or api_key == placeholder` (lines 323, 330)
KeyMissing(v, placeholder) == ~v.set \/ Len(v.text) = 0 \/ v.text = placeholder

\* Precheck with the credential test of the first provider only
PrecheckOpenaiOnly(llm_model) ==
  IF Blank(llm_model.model)
  THEN HTTPError(400, ModelNotSet)
  ELSE IF /\ llm_model.provider = OpenaiProvider
          /\ KeyMissing(environ.OPENAI_API_KEY, OpenaiPlaceholder)
  THEN HTTPError(400, OpenaiKeyMissing)
  ELSE Pending

\* lines 313-334: the error the checks raise, or Pending when they pass
Precheck(llm_model) ==
  IF Blank(llm_model.model)
  THEN HTTPError(400, ModelNotSet)
  ELSE IF /\ llm_model.provider = OpenaiProvider
          /\ KeyMissing(environ.OPENAI_API_KEY, OpenaiPlaceholder)
  THEN HTTPError(400, OpenaiKeyMissing)
  ELSE IF /\ llm_model.provider = AnthropicProvider
          /\ KeyMissing(environ.ANTHROPIC_API_KEY, AnthropicPlaceholder)
  THEN HTTPError(400, AnthropicKeyMissing)
  ELSE Pending

\* call_llm's branches that reach a provider client (lines 163, 173)
Supported(provider) == provider \in {OpenaiProvider, AnthropicProvider}

\* str(e) of the HTTPException of line 184: "<status_code>: <detail>"
UnsupportedProviderStr(provider) ==
  <<"4", "0", "0", ":", " ">> \o UnsupportedProvider \o provider

\* the except clause (lines 381-397): the HTTPException raised for str(e)
ClassifyError(error_msg) ==
  LET low == lower(error_msg)
  IN  IF Contains(low, KwApiKey) \/ Contains(low, KwAuthentication)
      THEN HTTPError(401, AuthFailedPrefix \o error_msg \o AuthFailedSuffix)
      ELSE IF Contains(low, KwModel)
      THEN HTTPError(400, ModelErrorPrefix \o error_msg \o ModelErrorSuffix)
      ELSE HTTPError(500, LLMErrorPrefix \o error_msg)

\* OnException that asks the provider once more before giving up
OnExceptionRetry(turn, error_msg) ==
  IF Len(turn.calls) \in {1, 2}
  THEN [turn EXCEPT !.calls = Append(@, @[Len(@)])]
  ELSE Finish(turn, ClassifyError(error_msg))

\* OnException that hands back what the request had computed so far
OnExceptionPartial(turn, error_msg) ==
  Finish(turn, [kind |-> "error",
                status_code |-> ClassifyError(error_msg).status_code,
                detail |-> ClassifyError(error_msg).detail,
                response |-> turn.initial_response,
                tools_used |-> turn.requested_tool_ids])

\* an exception inside the try block (lines 347-380) ends the request
OnException(turn, error_msg) == Finish(turn, ClassifyError(error_msg))

\* NotYetRequested without the membership test
NeverRequested(tool_id, requested) == TRUE

\* `if tool_id not in requested_tool_ids` (line 361)
NotYetRequested(tool_id, requested) ==
  \A i \in 1..Len(requested) : requested[i] # tool_id

\* the inner loop (lines 357-362) for one marker
RECURSIVE MatchTools(_, _, _, _)
MatchTools(db, tool_ids, marker_lower, requested) ==
  IF Len(tool_ids) = 0 THEN requested
  ELSE LET tool_id == Head(tool_ids)
           hit == /\ tool_id \in DOMAIN db
                  /\ lower(db[tool_id].name) = marker_lower
                  /\ NotYetRequested(tool_id, requested)
       IN  MatchTools(db, Tail(tool_ids), marker_lower,
                      IF hit THEN Append(requested, tool_id) ELSE requested)

\* the loops nested the other way round: for each tool of the agent, in
\* tool_ids order, whether some marker names it
RECURSIVE ResolveByToolOrder(_, _, _, _)
ResolveByToolOrder(db, agent_tool_ids, tool_markers, requested) ==
  IF Len(agent_tool_ids) = 0 THEN requested
  ELSE LET tool_id == Head(agent_tool_ids)
           hit == /\ tool_id \in DOMAIN db
                  /\ \E m \in 1..Len(tool_markers) :
                        lower(strip(tool_markers[m])) = lower(db[tool_id].name)
                  /\ NotYetRequested(tool_id, requested)
       IN  ResolveByToolOrder(db, Tail(agent_tool_ids), tool_markers,
                              IF hit THEN Append(requested, tool_id) ELSE requested)

\* the outer loop (lines 355-362) over the markers left
RECURSIVE ResolveMarkers(_, _, _, _)
ResolveMarkers(db, agent_tool_ids, tool_markers, requested) ==
  IF Len(tool_markers) = 0 THEN requested
  ELSE ResolveMarkers(db, agent_tool_ids, Tail(tool_markers),
         MatchTools(db, agent_tool_ids, lower(strip(Head(tool_markers))), requested))

\* the ids of a dict in ascending order
RECURSIVE Ascending(_)
Ascending(S) ==
  IF S = {} THEN <<>> ELSE <<SetMin(S)>> \o Ascending(S \ {SetMin(S)})

\* RequestedToolIds matching the markers against every stored tool
RequestedFromStore(db, agent_tool_ids, initial_response) ==
  ResolveMarkers(db, Ascending(DOMAIN db), re_findall(initial_response), <<>>)

\* lines 351-362
RequestedToolIds(db, agent_tool_ids, initial_response) ==
  ResolveMarkers(db, agent_tool_ids, re_findall(initial_response), <<>>)

\* FinalPrompt composed over the agent's whole tool list
FinalPromptAllTools(db, turn, requested_tool_ids) ==
  build_prompt_with_tool_content(db, turn.agent.system_prompt, turn.user_message,
                                 turn.agent.tool_ids)

\* FinalPrompt that reads the agent's system prompt from the store again
FinalPromptRereadsAgent(db, turn, requested_tool_ids) ==
  build_prompt_with_tool_content(db,
    IF turn.agent_id \in DOMAIN agents_db
    THEN agents_db[turn.agent_id].system_prompt
    ELSE turn.agent.system_prompt,
    turn.user_message, requested_tool_ids)

\* lines 366-370
FinalPrompt(db, turn, requested_tool_ids) ==
  build_prompt_with_tool_content(db, turn.agent.system_prompt, turn.user_message,
                                 requested_tool_ids)

\* lines 400-403
ToolNames(db, tools_used) ==
  LET present == PresentIds(db, tools_used)
  IN  [i \in 1..Len(present) |-> db[present[i]].name]

\* NoToolsResult that returns the reply as the model wrote it
NoToolsResultRaw(db, turn, initial_response) ==
  ChatResult(initial_response, <<>>, ToolNames(db, <<>>), turn.initial_prompt)

\* the else branch (lines 376-380) and the return (lines 399-410)
NoToolsResult(db, turn, initial_response) ==
  ChatResult(strip_markers(initial_response), <<>>, ToolNames(db, <<>>),
             turn.initial_prompt)

\* ToolsResult that looks every used tool up without `if tool_id in
\* tools_db`: the KeyError leaves the handler as a 500
ToolsResultKeyError(db, turn, final_response) ==
  IF \E i \in 1..Len(turn.requested_tool_ids) :
        turn.requested_tool_ids[i] \notin DOMAIN db
  THEN HTTPError(500, <<"I","n","t","e","r","n","a","l"," ","S","e","r","v","e","r"," ","E","r","r","o","r">>)
  ELSE ChatResult(strip_markers(final_response), turn.requested_tool_ids,
                  ToolNames(db, turn.requested_tool_ids), turn.final_prompt)

\* lines 372-375 and the return (lines 399-410)
ToolsResult(db, turn, final_response) ==
  ChatResult(strip_markers(final_response), turn.requested_tool_ids,
             ToolNames(db, turn.requested_tool_ids), turn.final_prompt)

\* lines 307-348: the request, up to the first provider request
StartTurn(db, agents, turn, agent_id, user_message) ==
  LET req == [turn EXCEPT !.agent_id = agent_id, !.user_message = user_message]
  IN  IF agent_id \notin DOMAIN agents
      THEN Finish(req, HTTPError(404, AgentNotFound))
      ELSE
        LET agent   == agents[agent_id]
            got     == [req EXCEPT !.agent = agent]
            refusal == Precheck(agent.llm_model)
        IN  IF refusal.kind = "error"
            THEN Finish(got, refusal)
            ELSE
              LET initial_prompt ==
                    build_prompt_with_tool_metadata(db, agent.system_prompt,
                                                    user_message, agent.tool_ids)
                  composed == [got EXCEPT !.initial_prompt = initial_prompt,
                                          !.disclosed = PresentIds(db, agent.tool_ids)]
              IN  IF Supported(agent.llm_model.provider)
                  THEN [composed EXCEPT !.pc = "await1",
                                        !.calls = Append(@, initial_prompt)]
                  ELSE OnException(composed,
                                   UnsupportedProviderStr(agent.llm_model.provider))

\* lines 348-371, or 348-410 when no tool is requested
AfterPass1(db, turn, result) ==
  LET seen == [turn EXCEPT !.results = Append(@, result.kind)]
  IN  IF result.kind = "raise" THEN OnException(seen, result.text)
      ELSE IF result.kind = "none" THEN OnException(seen, NoneTypeMessage)
      ELSE
        LET requested == RequestedToolIds(db, turn.agent.tool_ids, result.text)
            got == [seen EXCEPT !.initial_response = result.text,
                                !.requested_tool_ids = requested]
        IN  IF Len(requested) > 0
            THEN LET final_prompt == FinalPrompt(db, got, requested)
                 IN  [got EXCEPT !.final_prompt = final_prompt,
                                 !.pc = "await2",
                                 !.calls = Append(@, final_prompt)]
            ELSE Finish(got, NoToolsResult(db, got, result.text))

\* lines 371-410
AfterPass2(db, turn, result) ==
  LET seen == [turn EXCEPT !.results = Append(@, result.kind)]
  IN  IF result.kind = "raise" THEN OnException(seen, result.text)
      ELSE IF result.kind = "none" THEN OnException(seen, NoneTypeMessage)
      ELSE LET got == [seen EXCEPT !.final_response = result.text]
           IN  Finish(got, ToolsResult(db, got, result.text))

\* requests are numbered in the order they arrive
chat_start(t, agent_id, user_message) ==
  /\ turns[t].pc = "idle"
  /\ \A u \in Turns : u < t => turns[u].pc # "idle"
  /\ turns' = [turns EXCEPT ![t] =
                 StartTurn(tools_db, agents_db, turns[t], agent_id, user_message)]
  /\ UNCHANGED <<tools_db, agents_db, tool_uuids, agent_uuids, environ, ops,
                 http_response>>

\* pass1_done that also repairs the stored agent: it takes the ids of
\* vanished tools off the record's tool_ids
pass1_done_repairs(t, result) ==
  /\ turns[t].pc = "await1"
  /\ turns' = [turns EXCEPT ![t] = AfterPass1(tools_db, turns[t], result)]
  /\ agents_db' =
       [a \in DOMAIN agents_db |->
          [agents_db[a] EXCEPT
             !.tool_ids = SelectSeq(@, LAMBDA id : id \in DOMAIN tools_db)]]
  /\ UNCHANGED <<tools_db, tool_uuids, agent_uuids, environ, ops, http_response>>

pass1_done(t, result) ==
  /\ turns[t].pc = "await1"
  /\ turns' = [turns EXCEPT ![t] = AfterPass1(tools_db, turns[t], result)]
  /\ UNCHANGED <<tools_db, agents_db, tool_uuids, agent_uuids, environ, ops,
                 http_response>>

pass2_done(t, result) ==
  /\ turns[t].pc = "await2"
  /\ turns' = [turns EXCEPT ![t] = AfterPass2(tools_db, turns[t], result)]
  /\ UNCHANGED <<tools_db, agents_db, tool_uuids, agent_uuids, environ, ops,
                 http_response>>

(* --------------------------- the specification ------------------------- *)

Next ==
  \/ \E tool \in ToolInputs : create_tool(tool)
  \/ \E tool_id \in 0..tool_uuids, tool \in ToolInputs : update_tool(tool_id, tool)
  \/ \E tool_id \in 0..tool_uuids : delete_tool(tool_id)
  \/ \E agent \in AgentInputs(tool_uuids) : create_agent(agent)
  \/ \E agent_id \in 0..agent_uuids, agent \in AgentInputs(tool_uuids) :
        update_agent(agent_id, agent)
  \/ \E agent_id \in 0..agent_uuids : delete_agent(agent_id)
  \/ \E t \in Turns, agent_id \in 0..agent_uuids, user_message \in UserMessages :
        chat_start(t, agent_id, user_message)
  \/ \E t \in Turns, result \in ProviderResults : pass1_done(t, result)
  \/ \E t \in Turns, result \in ProviderResults : pass2_done(t, result)

Spec == Init /\ [][Next]_vars

(* ------------------- the chat over texts that overlap ------------------ *)
(* SpecText follows one chat from a store of three tools whose texts       *)
(* overlap (the prompt_piece of tool 3 is a word of tool 1's description   *)
(* and prompt_piece), for agents whose system prompt or user message       *)
(* carries "User:" or "Assistant:".  No CRUD request is served meanwhile.  *)

\* tools_db after update_tool on the example tool and two create_tool
TextTools ==
  (1 :> [id |-> 1,
      name |-> <<"P","r","i","c","i","n","g">>,
      description |-> <<"D","i","s","c","o","u","n","t"," ","r","u","l","e","s">>,
      prompt_piece |-> <<"D","i","s","c","o","u","n","t"," ","1","0","%"," ","f","r","o","m"," ","5"," ","s","e","a","t","s">>])
  @@ (2 :> [id |-> 2,
      name |-> <<"R","e","f","u","n","d","s">>,
      description |-> <<"r","e","f","u","n","d"," ","p","o","l","i","c","y">>,
      prompt_piece |-> <<"R","e","f","u","n","d"," ","w","i","t","h","i","n"," ","3","0"," ","d","a","y","s">>])
  @@ (3 :> [id |-> 3,
      name |-> <<"N","o","t","e","s">>,
      description |-> <<"s","h","o","r","t"," ","n","o","t","e","s">>,
      prompt_piece |-> <<"D","i","s","c","o","u","n","t">>])

TextSystemPrompts ==
  { <<"B","e"," ","b","r","i","e","f",".">>,
    <<"A","n","s","w","e","r"," ","U","s","e","r",":"," ","q","u","e","s","t","i","o","n","s",".">> }

\* tool_ids of the agent; 4 is an id no tool was stored under
TextToolIds == { <<>>, <<1, 2>>, <<1, 2, 3>>, <<3, 1, 4>> }

TextUserMessages ==
  { <<"h","i">>,
    <<"I","s"," ","U","s","e","r",":"," ","a"," ","c","u","e","?">>,
    <<"S","a","y"," ","A","s","s","i","s","t","a","n","t",":"," ","n","o","w">> }

TextCompletions ==
  { <<"[","U","S","E","_","T","O","O","L",":"," ","R","e","f","u","n","d","s","]"," ","t","h","e","n"," ","[","U","S","E","_","T","O","O","L",":"," ","p","r","i","c","i","n","g","]">>,
    <<"[","U","S","E","_","T","O","O","L",":"," ","P","r","i","c","i","n","g","]">>,
    <<"[","U","S","E","_","T","O","O","L",":"," ","P","r","i","c","i","n","g","]"," ","[","U","S","E","_","T","O","O","L",":"," ","R","e","f","u","n","d","s","]"," ","[","U","S","E","_","T","O","O","L",":"," ","P","R","I","C","I","N","G","]">>,
    <<"o","k">> }

TextResults ==
  {[kind |-> "text", text |-> c] : c \in TextCompletions}
    \cup {[kind |-> "none", text |-> <<>>]}

InitText ==
  /\ tools_db = TextTools
  /\ \E system_prompt \in TextSystemPrompts, tool_ids \in TextToolIds :
        agents_db = (1 :> [id |-> 1, name |-> ExampleAgentName,
                           llm_model |-> [provider |-> OpenaiProvider, model |-> Gpt4],
                           system_prompt |-> system_prompt,
                           tool_ids |-> tool_ids])
  /\ tool_uuids = 3
  /\ agent_uuids = 1
  /\ environ \in {e \in Environments :
                    ~KeyMissing(e.OPENAI_API_KEY, OpenaiPlaceholder)}
  /\ turns = [t \in {1} |-> IdleTurn]
  /\ ops = 0
  /\ http_response = NoResponse

NextText ==
  \/ \E t \in Turns, user_message \in TextUserMessages :
        chat_start(t, 1, user_message)
  \/ \E t \in Turns, result \in TextResults : pass1_done(t, result)
  \/ \E t \in Turns, result \in TextResults : pass2_done(t, result)

SpecText == InitText /\ [][NextText]_vars

(* ------------------------- the store's answers ------------------------- *)
(* SpecStore follows the requests on the entity store, the reads of one    *)
(* record included, with ids that are stored and ids that are not, and the *)
(* arrival of one chat request.                                            *)

NextStore ==
  \/ \E tool \in ToolInputs : create_tool(tool)
  \/ \E tool_id \in 0..tool_uuids : get_tool(tool_id)
  \/ \E tool_id \in 0..tool_uuids, tool \in ToolInputs : update_tool(tool_id, tool)
  \/ \E tool_id \in 0..tool_uuids : delete_tool(tool_id)
  \/ \E agent \in AgentInputs(tool_uuids) : create_agent(agent)
  \/ \E agent_id \in 0..agent_uuids : get_agent(agent_id)
  \/ \E agent_id \in 0..agent_uuids, agent \in AgentInputs(tool_uuids) :
        update_agent(agent_id, agent)
  \/ \E agent_id \in 0..agent_uuids : delete_agent(agent_id)
  \/ \E t \in Turns, agent_id \in 0..agent_uuids, user_message \in UserMessages :
        chat_start(t, agent_id, user_message)

SpecStore == Init /\ [][NextStore]_vars

(* --------------------------- concurrent chats -------------------------- *)
(* SpecChats follows two chat requests, which may be in flight together,   *)
(* from the example data, with tools updated or deleted and agents deleted *)
(* meanwhile.                                                              *)

ChatsResults ==
  { r \in ProviderResults :
      \/ r.kind = "none"
      \/ r.kind = "text" /\ Len(re_findall(r.text)) = 1
      \/ r.kind = "raise" /\ Contains(r.text, KwModel) }

InitChats ==
  /\ tools_db = (1 :> [id |-> 1, name |-> ExampleToolName,
                       description |-> ExampleToolDescription,
                       prompt_piece |-> ExampleToolPromptPiece])
  /\ agents_db = (1 :> [id |-> 1, name |-> ExampleAgentName,
                        llm_model |-> [provider |-> OpenaiProvider, model |-> Gpt4],
                        system_prompt |-> ExampleSystemPrompt,
                        tool_ids |-> <<1>>])
  /\ tool_uuids = 1
  /\ agent_uuids = 1
  /\ environ \in Environments
  /\ turns = [t \in {1, 2} |-> IdleTurn]
  /\ ops = 0
  /\ http_response = NoResponse

NextChats ==
  \/ \E tool_id \in 0..tool_uuids, tool \in ToolInputs : update_tool(tool_id, tool)
  \/ \E tool_id \in 0..tool_uuids : delete_tool(tool_id)
  \/ \E agent_id \in 0..agent_uuids : delete_agent(agent_id)
  \/ \E t \in Turns, agent_id \in 0..agent_uuids, user_message \in UserMessages :
        chat_start(t, agent_id, user_message)
  \/ \E t \in Turns, result \in ChatsResults : pass1_done(t, result)
  \/ \E t \in Turns, result \in ChatsResults : pass2_done(t, result)

SpecChats == InitChats /\ [][NextChats]_vars

(* ------------------------------- claims -------------------------------- *)

Elems(q) == {q[i] : i \in 1..Len(q)}

\* the request has been answered with the dict of lines 405-410
Returned(t) == turns[t].pc = "done" /\ turns[t].outcome.kind = "ok"

\* the request has been answered with an HTTPException
Refused(t) == turns[t].pc = "done" /\ turns[t].outcome.kind = "error"

\* the request got past `if agent_id not in agents_db` (line 307)
AgentRead(t) == turns[t].pc # "idle" /\ turns[t].agent # NoAgent

(* C1: every id a successful chat turn returns in tools_used is one of the
   tool_ids of the agent record the turn read when it started and is the id
   of a tool listed in the pass-1 metadata prompt, whatever create, update
   and delete requests were served while the turn waited for the model. *)
C1_ToolsUsedWereDisclosed ==
  \A t \in Turns :
    Returned(t) =>
      /\ Elems(turns[t].outcome.tools_used) \subseteq Elems(turns[t].agent.tool_ids)
      /\ Elems(turns[t].outcome.tools_used) \subseteq Elems(turns[t].disclosed)

\* a turn returned a tool that was deleted while the turn waited for pass 2,
\* and another tool is stored that the agent does not list
C1_Witness ==
  \E t \in Turns :
    /\ Returned(t)
    /\ \E id \in Elems(turns[t].outcome.tools_used) : id \notin DOMAIN tools_db
    /\ \E id \in DOMAIN tools_db : id \notin Elems(turns[t].agent.tool_ids)

(* C9: tools_used never holds an id twice, whatever the reply and whatever
   the agent's tool list (a tool_ids list may repeat an id, and a reply may
   repeat a marker in any letter case). *)
C9_ToolsUsedHasNoDuplicates ==
  \A t \in Turns :
    /\ Cardinality(Elems(turns[t].requested_tool_ids)) = Len(turns[t].requested_tool_ids)
    /\ Returned(t) =>
         Cardinality(Elems(turns[t].outcome.tools_used)) = Len(turns[t].outcome.tools_used)

\* two markers of reply1, differing in letter case, name the same tool, the
\* agent lists that tool twice, and the turn returned it
C9_Witness ==
  \E t \in Turns :
    /\ Returned(t)
    /\ Len(turns[t].outcome.tools_used) > 0
    /\ \E id \in Elems(turns[t].outcome.tools_used) \cap DOMAIN tools_db :
          /\ \E i, j \in 1..Len(turns[t].agent.tool_ids) :
                /\ i # j
                /\ turns[t].agent.tool_ids[i] = id
                /\ turns[t].agent.tool_ids[j] = id
          /\ LET markers == re_findall(turns[t].initial_response)
             IN  \E i, j \in 1..Len(markers) :
                   /\ strip(markers[i]) # strip(markers[j])
                   /\ lower(strip(markers[i])) = lower(tools_db[id].name)
                   /\ lower(strip(markers[j])) = lower(tools_db[id].name)

\* the model name is empty or whitespace only
ModelBlank(llm_model) ==
  \A i \in 1..Len(llm_model.model) : llm_model.model[i] \in Whitespace

\* the variable is unset or empty, or holds the placeholder of .env.example
CredentialUnusable(v, placeholder) == ~v.set \/ v.text = <<>> \/ v.text = placeholder

\* the agent's provider is openai or anthropic and its credential is unusable
CredentialMissing(llm_model) ==
  \/ /\ llm_model.provider = OpenaiProvider
     /\ CredentialUnusable(environ.OPENAI_API_KEY, OpenaiPlaceholder)
  \/ /\ llm_model.provider = AnthropicProvider
     /\ CredentialUnusable(environ.ANTHROPIC_API_KEY, AnthropicPlaceholder)

(* C4: the model invocations of one chat turn are sequential and never
   retried: at most one is outstanding, at most two are issued, the second
   is issued only after the first returned a completion, and no invocation
   is issued after one that failed. *)
C4_InvocationsSequentialNoRetry ==
  \A t \in Turns :
    LET calls == turns[t].calls
        results == turns[t].results
    IN  /\ Len(calls) <= 2
        /\ Len(results) <= Len(calls)
        /\ Len(calls) <= Len(results) + 1
        /\ Len(calls) = 2 => (Len(results) >= 1 /\ results[1] = "text")
        /\ \A i \in 1..Len(results) : results[i] # "text" => Len(calls) = i
        /\ turns[t].pc = "await1" <=> (Len(calls) = 1 /\ Len(results) = 0)
        /\ turns[t].pc = "await2" <=> (Len(calls) = 2 /\ Len(results) = 1)

\* pass 1 returned a completion, pass 2 came back without text, and the turn
\* ended there with two invocations made
C4_Witness ==
  \E t \in Turns :
    /\ turns[t].pc = "done"
    /\ turns[t].results = <<"text", "none">>
    /\ Len(turns[t].calls) = 2
    /\ turns[t].calls[1] # turns[t].calls[2]

(* C5: a chat turn for an agent whose model name is empty or blank, or whose
   provider is openai or anthropic with the credential absent, empty or
   equal to the placeholder, fails with status 400 and makes no model
   invocation. *)
C5_PreconditionFailsFast ==
  \A t \in Turns :
    (/\ AgentRead(t)
     /\ ModelBlank(turns[t].agent.llm_model) \/ CredentialMissing(turns[t].agent.llm_model))
      => /\ Refused(t)
         /\ turns[t].outcome.status_code = 400
         /\ turns[t].calls = <<>>
         /\ turns[t].results = <<>>

\* a turn for an anthropic agent with a model name was refused with 400
\* because ANTHROPIC_API_KEY is unset or holds the placeholder
C5_Witness ==
  \E t \in Turns :
    /\ Refused(t)
    /\ turns[t].agent.llm_model.provider = AnthropicProvider
    /\ ~ModelBlank(turns[t].agent.llm_model)
    /\ CredentialMissing(turns[t].agent.llm_model)
    /\ turns[t].outcome.status_code = 400
    /\ turns[t].outcome.detail = AnthropicKeyMissing
    /\ turns[t].calls = <<>>

(* C6: a chat turn for an agent whose provider is neither "openai" nor
   "anthropic" fails with status 400 and no provider call is made. *)
C6_UnsupportedProviderIs400 ==
  \A t \in Turns :
    (/\ AgentRead(t)
     /\ ~ModelBlank(turns[t].agent.llm_model)
     /\ turns[t].agent.llm_model.provider \notin {OpenaiProvider, AnthropicProvider})
      => /\ Refused(t)
         /\ turns[t].outcome.status_code = 400
         /\ turns[t].calls = <<>>

ResultFields == {"kind", "response", "tools_used", "tools_used_names", "full_prompt"}

ErrorFields == {"kind", "status_code", "detail"}

(* C7: a chat turn is atomic for the caller: nothing is returned before it
   ends, and it ends either with a result carrying response, tools_used,
   tools_used_names and full_prompt, or with an error carrying none of
   them; when pass 1 succeeded and pass 2 failed it ends with an error. *)
C7_TurnIsAtomic ==
  \A t \in Turns :
    /\ turns[t].pc # "done" => turns[t].outcome = Pending
    /\ turns[t].pc = "done" =>
         \/ turns[t].outcome.kind = "ok" /\ DOMAIN turns[t].outcome = ResultFields
         \/ turns[t].outcome.kind = "error" /\ DOMAIN turns[t].outcome = ErrorFields
    /\ (\E i \in 1..Len(turns[t].results) : turns[t].results[i] # "text")
         => turns[t].outcome.kind = "error"

\* pass 1 resolved a tool, the provider raised in pass 2, and the caller got
\* an error
C7_Witness ==
  \E t \in Turns :
    /\ Refused(t)
    /\ turns[t].results = <<"text", "raise">>
    /\ Len(turns[t].requested_tool_ids) > 0
    /\ Len(turns[t].initial_response) > 0
    /\ DOMAIN turns[t].outcome = ErrorFields

(* C10: marker stripping as applied to the returned response is idempotent
   and complete: stripping the returned response again changes nothing, and
   the returned response holds no text matching [USE_TOOL: <name>]. *)
C10_StrippingIdempotentAndComplete ==
  \A t \in Turns :
    Returned(t) =>
      /\ strip_markers(turns[t].outcome.response) = turns[t].outcome.response
      /\ Len(re_findall(turns[t].outcome.response)) = 0

\* the tools of the agent, stored in db, that some marker of reply names
\* (whitespace around the name trimmed, letter case ignored)
ResolvedSet(db, tool_ids, reply) ==
  LET markers == re_findall(reply)
  IN  {id \in Elems(tool_ids) \cap DOMAIN db :
         \E i \in 1..Len(markers) : lower(strip(markers[i])) = lower(db[id].name)}

\* the step in which turn t is handed the completion of pass 1
Pass1Completed(t) ==
  /\ turns[t].pc = "await1"
  /\ turns'[t].pc # "await1"
  /\ turns'[t].results = <<"text">>

\* the step in which turn t returns after pass 2
Pass2Returned(t) ==
  /\ turns[t].pc = "await2"
  /\ turns'[t].pc = "done"
  /\ turns'[t].outcome.kind = "ok"

(* C2: when no marker of reply1 names a tool of the agent (the agent has no
   tool, reply1 has no marker, or every marker names something else), the
   turn ends right there, having made exactly one model invocation: the
   response is reply1 with its markers stripped, tools_used is empty and
   full_prompt is the pass-1 metadata prompt. *)
C2_NoToolsPath ==
  [][\A t \in Turns :
       (/\ Pass1Completed(t)
        /\ ResolvedSet(tools_db, turns[t].agent.tool_ids,
                       turns'[t].initial_response) = {})
         => /\ turns'[t].pc = "done"
            /\ turns'[t].outcome.kind = "ok"
            /\ turns'[t].outcome.response = strip_markers(turns'[t].initial_response)
            /\ turns'[t].outcome.tools_used = <<>>
            /\ turns'[t].outcome.full_prompt = turns[t].initial_prompt
            /\ turns'[t].calls = <<turns[t].initial_prompt>>]_vars

\* the agent has a stored tool, reply1 carried a marker that names none of
\* the agent's tools, and the turn returned the stripped reply1 after one
\* invocation
C2_Witness ==
  \E t \in Turns :
    /\ Returned(t)
    /\ Len(turns[t].disclosed) > 0
    /\ Len(re_findall(turns[t].initial_response)) > 0
    /\ turns[t].outcome.tools_used = <<>>
    /\ turns[t].outcome.response # turns[t].initial_response
    /\ turns[t].outcome.full_prompt = turns[t].initial_prompt
    /\ Len(turns[t].calls) = 1

(* C3: when at least one marker of reply1 names a tool of the agent, the
   turn makes a second model invocation whose prompt is the full-content
   prompt composed over exactly the resolved ids; when that invocation
   returns, the response is the second reply with its markers stripped,
   tools_used is the resolved id sequence and full_prompt is the prompt
   sent on the second invocation, not the pass-1 prompt. *)
C3_ToolsPath ==
  [][\A t \in Turns :
       /\ (/\ Pass1Completed(t)
           /\ ResolvedSet(tools_db, turns[t].agent.tool_ids,
                          turns'[t].initial_response) # {})
            => /\ turns'[t].pc = "await2"
               /\ Elems(turns'[t].requested_tool_ids) =
                    ResolvedSet(tools_db, turns[t].agent.tool_ids,
                                turns'[t].initial_response)
               /\ Len(turns'[t].calls) = 2
               /\ turns'[t].calls[2] =
                    build_prompt_with_tool_content(tools_db,
                      turns[t].agent.system_prompt, turns[t].user_message,
                      turns'[t].requested_tool_ids)
       /\ Pass2Returned(t)
            => /\ turns'[t].outcome.response = strip_markers(turns'[t].final_response)
               /\ turns'[t].outcome.tools_used = turns[t].requested_tool_ids
               /\ Len(turns[t].requested_tool_ids) > 0
               /\ turns'[t].outcome.full_prompt = turns[t].calls[2]
               /\ turns'[t].outcome.full_prompt # turns[t].calls[1]
               /\ Len(turns'[t].calls) = 2]_vars

\* a turn returned after two invocations with fewer tools used than were
\* disclosed, and the second reply carried a marker that was stripped
C3_Witness ==
  \E t \in Turns :
    /\ Returned(t)
    /\ Len(turns[t].calls) = 2
    /\ Len(turns[t].outcome.tools_used) > 0
    /\ Elems(turns[t].outcome.tools_used) # Elems(turns[t].disclosed)
    /\ turns[t].outcome.full_prompt = turns[t].calls[2]
    /\ turns[t].outcome.response # turns[t].final_response

(* C8: when a marker's name matches, letter case ignored, the names of two
   different tools of the agent, it resolves to the first of them in
   tool_ids order only: the second one's id is not among the requested
   tool ids. *)
C8_MarkerResolvesToFirstMatchOnly ==
  [][\A t \in Turns :
       Pass1Completed(t) =>
         LET ids == turns[t].agent.tool_ids
             markers == re_findall(turns'[t].initial_response)
         IN  \A i, j \in 1..Len(ids) :
               (/\ i < j
                /\ ids[i] # ids[j]
                /\ ids[i] \in DOMAIN tools_db
                /\ ids[j] \in DOMAIN tools_db
                /\ lower(tools_db[ids[i]].name) = lower(tools_db[ids[j]].name)
                /\ \E m \in 1..Len(markers) :
                      lower(strip(markers[m])) = lower(tools_db[ids[i]].name))
                 => ids[j] \notin Elems(turns'[t].requested_tool_ids)]_vars

\* how many times sep occurs in s
Occurrences(s, sep) == Cardinality({j \in 1..Len(s) : OccursAt(s, sep, j)})

\* the part of a composed prompt that precedes the user-cue the Composer
\* wrote (lines 137, 157): the system prompt and the tools section
BeforeUserCue(prompt, user_message) ==
  SubSeq(prompt, 1, Len(prompt) - Len(AssistantCue) - Len(user_message) - Len(UserCue))

(* C11: for every system prompt and user message, texts that carry "User:"
   or "Assistant:" included, each prompt handed to the Invoker has exactly
   one user-cue followed by exactly one generation-cue, the system text
   sent to the provider is everything before the user-cue and the user text
   sent is exactly the user message. *)
C11_FramingContract ==
  \A t \in Turns :
    \A i \in 1..Len(turns[t].calls) :
      LET prompt == turns[t].calls[i]
      IN  /\ Occurrences(prompt, UserSep) = 1
          /\ Occurrences(prompt, AssistantSep) = 1
          /\ NextOccurrence(prompt, UserSep, 1) < NextOccurrence(prompt, AssistantSep, 1)
          /\ system_content(prompt) = strip(BeforeUserCue(prompt, turns[t].user_message))
          /\ user_content(prompt) = turns[t].user_message

\* the request has composed the full-content prompt (lines 366-370)
Pass2Composed(t) == Len(turns[t].calls) = 2

(* C12, as stated: the full-content prompt contains the prompt_piece of each
   resolved tool exactly once, in resolved order, and contains no
   prompt_piece of a tool disclosed in pass 1 that was not requested. *)
C12_PiecesOnceAndNoOther ==
  \A t \in Turns :
    Pass2Composed(t) =>
      LET prompt == turns[t].calls[2]
          requested == turns[t].requested_tool_ids
          piece(id) == tools_db[id].prompt_piece
      IN  /\ \A i \in 1..Len(requested) :
                Occurrences(prompt, piece(requested[i])) = 1
          /\ \A i, j \in 1..Len(requested) :
                i < j => NextOccurrence(prompt, piece(requested[i]), 1)
                           < NextOccurrence(prompt, piece(requested[j]), 1)
          /\ \A id \in Elems(turns[t].disclosed) \ Elems(requested) :
                ~Contains(prompt, piece(id))

\* the labeled block of one tool: its name in brackets, then its
\* prompt_piece verbatim
ContentBlock(tool) ==
  <<"\n", "\n", "[">> \o tool.name \o <<"]", "\n">> \o tool.prompt_piece

\* the blocks of the tools ids, in order, one line break between two blocks
RECURSIVE ContentBlocks(_, _)
ContentBlocks(db, ids) ==
  IF Len(ids) = 0 THEN <<>>
  ELSE IF Len(ids) = 1 THEN ContentBlock(db[ids[1]])
  ELSE ContentBlock(db[ids[1]]) \o <<"\n">> \o ContentBlocks(db, Tail(ids))

(* C12, amended: the full-content prompt is the system prompt, then one
   labeled content block per resolved tool, each resolved tool's exactly
   once and in resolved order, each carrying that tool's prompt_piece
   verbatim, then the fixed instruction, the user-cue, the user message and
   the generation-cue; it has no block of any other tool.  (The text of a
   prompt_piece can still occur elsewhere in it, where another text that is
   composed in contains it.) *)
C12_FullContentBlocks ==
  \A t \in Turns :
    Pass2Composed(t) =>
      LET requested == turns[t].requested_tool_ids
      IN  /\ Len(requested) > 0
          /\ Cardinality(Elems(requested)) = Len(requested)
          /\ Elems(requested) \subseteq DOMAIN tools_db
          /\ turns[t].calls[2] =
               turns[t].agent.system_prompt \o ContentBlocks(tools_db, requested)
                 \o NaturalInstruction
                 \o UserCue \o turns[t].user_message \o AssistantCue

\* pass 2 was composed for two tools requested in the reverse of their
\* tool_ids order, a third tool of the agent was not requested, and that
\* tool's prompt_piece is a word of a block in the prompt
C12_Witness ==
  \E t \in Turns :
    /\ Pass2Composed(t)
    /\ turns[t].requested_tool_ids = <<2, 1>>
    /\ turns[t].agent.tool_ids = <<1, 2, 3>>
    /\ 3 \in Elems(turns[t].disclosed)
    /\ Contains(turns[t].calls[2], tools_db[3].prompt_piece)
    /\ Contains(turns[t].calls[2], ContentBlock(tools_db[2]) \o <<"\n">> \o ContentBlock(tools_db[1]))

\* the request has composed the metadata prompt (lines 340-344)
Pass1Composed(t) == Len(turns[t].calls) >= 1

(* C13, as stated: for every tool selection, system prompt and user message,
   the metadata prompt contains no selected tool's prompt_piece as a
   substring. *)
C13_NoPieceSubstring ==
  \A t \in Turns :
    Pass1Composed(t) =>
      \A id \in Elems(turns[t].agent.tool_ids) \cap DOMAIN tools_db :
        ~Contains(turns[t].calls[1], tools_db[id].prompt_piece)

\* the line of one tool in the metadata prompt: its name and description
MetadataLine(tool) == <<"-", " ">> \o tool.name \o <<":", " ">> \o tool.description

RECURSIVE MetadataLines(_, _)
MetadataLines(db, ids) ==
  IF Len(ids) = 0 THEN <<>>
  ELSE IF Len(ids) = 1 THEN MetadataLine(db[ids[1]])
  ELSE MetadataLine(db[ids[1]]) \o <<"\n">> \o MetadataLines(db, Tail(ids))

(* C13, amended: the metadata prompt exposes only each selected tool's name
   and description: it is the system prompt, then (when a selected tool is
   stored) the tools header, one line "- <name>: <description>" per stored
   selected tool in tool_ids order and the fixed marker instruction, then
   the user-cue, the user message and the generation-cue.  No prompt_piece
   is composed into it; a prompt_piece is a substring of it only where
   those texts contain it. *)
C13_MetadataOnly ==
  \A t \in Turns :
    Pass1Composed(t) =>
      LET stored == SelectSeq(turns[t].agent.tool_ids, LAMBDA id : id \in DOMAIN tools_db)
          tools_section ==
            IF Len(stored) = 0 THEN <<>>
            ELSE AvailableToolsHeader \o MetadataLines(tools_db, stored)
                   \o UseToolInstruction
          expected ==
            turns[t].agent.system_prompt \o tools_section
              \o UserCue \o turns[t].user_message \o AssistantCue
      IN  /\ turns[t].calls[1] = expected
          /\ turns[t].initial_prompt = expected
          /\ \A id \in Elems(stored) :
               Contains(turns[t].calls[1], tools_db[id].prompt_piece)
                 => \/ Contains(turns[t].agent.system_prompt, tools_db[id].prompt_piece)
                    \/ Contains(turns[t].user_message, tools_db[id].prompt_piece)
                    \/ Contains(tools_section, tools_db[id].prompt_piece)

\* the metadata prompt lists the agent's three tools, the prompt_piece of
\* tool 3 occurs in the line of tool 1, and the prompt_pieces of tools 1 and
\* 2, which occur in no name or description, are not in the prompt
C13_Witness ==
  \E t \in Turns :
    /\ Pass1Composed(t)
    /\ turns[t].disclosed = <<1, 2, 3>>
    /\ Contains(MetadataLine(tools_db[1]), tools_db[3].prompt_piece)
    /\ Contains(turns[t].calls[1], MetadataLine(tools_db[3]))
    /\ ~Contains(turns[t].calls[1], tools_db[1].prompt_piece)
    /\ ~Contains(turns[t].calls[1], tools_db[2].prompt_piece)

\* the step in which turn t is handed the completion of pass 2
Pass2Completed(t) ==
  /\ turns[t].pc = "await2"
  /\ turns'[t].pc # "await2"
  /\ turns'[t].results = <<"text", "text">>

\* the ids in ids that are stored in db no more
Vanished(db, ids) == {id \in Elems(ids) : id \notin DOMAIN db}

(* C14: when a tool the turn has disclosed or resolved was deleted while the
   turn waited for the model, the turn still completes without an error from
   the missing tool: after pass 1 the vanished tool is not resolved and any
   prompt composed then is made of stored tools only; after pass 2 the turn
   returns its result, with the prompt it had sent. *)
C14_DeletedToolDroppedSilently ==
  [][\A t \in Turns :
       /\ (Pass1Completed(t) /\ Vanished(tools_db, turns[t].disclosed) # {})
            => LET requested == turns'[t].requested_tool_ids
               IN  /\ turns'[t].outcome.kind # "error"
                   /\ Elems(requested) \cap Vanished(tools_db, turns[t].disclosed) = {}
                   /\ turns'[t].pc = "done" =>
                        /\ requested = <<>>
                        /\ turns'[t].outcome.tools_used = <<>>
                        /\ turns'[t].outcome.full_prompt = turns[t].initial_prompt
                   /\ turns'[t].pc = "await2" =>
                        /\ requested # <<>>
                        /\ turns'[t].calls[2] =
                             turns[t].agent.system_prompt
                               \o ContentBlocks(tools_db, requested)
                               \o NaturalInstruction
                               \o UserCue \o turns[t].user_message \o AssistantCue
       /\ (Pass2Completed(t) /\ Vanished(tools_db, turns[t].requested_tool_ids) # {})
            => /\ turns'[t].outcome.kind = "ok"
               /\ turns'[t].outcome.tools_used = turns[t].requested_tool_ids
               /\ turns'[t].outcome.full_prompt = turns[t].calls[2]
               /\ turns'[t].outcome.response = strip_markers(turns'[t].final_response)]_vars

\* the only tool of the agent was deleted while the turn waited for pass 1,
\* reply1 carried a marker, and the turn returned the stripped reply1
C14_Witness ==
  \E t \in Turns :
    /\ Returned(t)
    /\ turns[t].disclosed # <<>>
    /\ Vanished(tools_db, turns[t].disclosed) = Elems(turns[t].disclosed)
    /\ Len(re_findall(turns[t].initial_response)) > 0
    /\ Len(turns[t].calls) = 1
    /\ turns[t].outcome.tools_used = <<>>
    /\ turns[t].outcome.response # turns[t].initial_response

\* the step removes a tool record
ToolDeleted == \E id \in DOMAIN tools_db : id \notin DOMAIN tools_db'

\* the step in which request t arrives and reads its agent
ChatStarted(t) ==
  /\ turns[t].pc = "idle"
  /\ turns'[t].pc # "idle"
  /\ turns'[t].agent # NoAgent

\* tool ids of the agent that name no stored tool
Dangling(db, agent) == Vanished(db, agent.tool_ids)

(* C15: delete_tool does not cascade: it removes that tool's record only and
   leaves every other tool record and every agent record, tool_ids
   included, as they were; a chat that starts later with an agent holding
   such a dangling id leaves the id out of the metadata prompt and of the
   resolution, and does not fail for it. *)
C15_DeleteToolNoCascade ==
  [][/\ ToolDeleted =>
          /\ agents_db' = agents_db
          /\ \E id \in DOMAIN tools_db : tools_db' = Del(tools_db, id)
     /\ \A t \in Turns :
          /\ (ChatStarted(t) /\ Dangling(tools_db, turns'[t].agent) # {})
               => LET agent == turns'[t].agent
                      stored == SelectSeq(agent.tool_ids, LAMBDA id : id \in DOMAIN tools_db)
                      tools_section ==
                        IF Len(stored) = 0 THEN <<>>
                        ELSE AvailableToolsHeader \o MetadataLines(tools_db, stored)
                               \o UseToolInstruction
                  IN  /\ agents_db[turns'[t].agent_id] = agent
                      /\ (~ModelBlank(agent.llm_model)
                          /\ ~CredentialMissing(agent.llm_model)
                          /\ Supported(agent.llm_model.provider))
                           => /\ turns'[t].pc = "await1"
                              /\ turns'[t].disclosed = stored
                              /\ turns'[t].calls =
                                   << agent.system_prompt \o tools_section
                                        \o UserCue \o turns'[t].user_message
                                        \o AssistantCue >>
          /\ (Pass1Completed(t) /\ Dangling(tools_db, turns[t].agent) # {})
               => /\ turns'[t].outcome.kind # "error"
                  /\ Elems(turns'[t].requested_tool_ids)
                       \cap Dangling(tools_db, turns[t].agent) = {}]_vars

\* the example tool was deleted, the agent record still lists it, and a chat
\* that started afterwards with that agent returned: nothing was disclosed,
\* and the marker of reply1 was stripped
C15_Witness ==
  \E t \in Turns :
    /\ Returned(t)
    /\ turns[t].agent_id \in DOMAIN agents_db
    /\ agents_db[turns[t].agent_id] = turns[t].agent
    /\ turns[t].agent.tool_ids # <<>>
    /\ Dangling(tools_db, turns[t].agent) = Elems(turns[t].agent.tool_ids)
    /\ turns[t].disclosed = <<>>
    /\ ~Contains(turns[t].initial_prompt, AvailableToolsHeader)
    /\ Len(re_findall(turns[t].initial_response)) > 0
    /\ turns[t].outcome.tools_used = <<>>

\* the step is a step of chat request t
TurnStepped(t) == turns'[t] # turns[t]

\* the entity store and the id generators
Stores == <<tools_db, agents_db, tool_uuids, agent_uuids>>

(* C16: a chat turn only reads the entity store: no step of a chat, whatever
   it ends with, and whatever other chats are in flight on the same or
   another agent, changes the tool store or the agent store, which change
   only in the steps of CRUD requests; and a step of one chat changes
   nothing of another chat, whose state and result stay as they were. *)
C16_ChatOnlyReadsStore ==
  [][/\ \A t \in Turns :
          TurnStepped(t) =>
            /\ Stores' = Stores
            /\ environ' = environ
            /\ \A u \in Turns \ {t} : turns'[u] = turns[u]
     /\ Stores' # Stores => (turns' = turns /\ ops' = ops + 1)
     /\ \A t \in Turns :
          turns[t].pc = "done" => turns'[t] = turns[t]]_vars

\* two chats with the same agent were in flight together, a tool was deleted
\* meanwhile, and the second returned a result while the first, which was
\* handed the same reply1 before the deletion, is still waiting for pass 2
C16_Witness ==
  /\ DOMAIN turns = {1, 2}
  /\ turns[1].agent_id = turns[2].agent_id
  /\ turns[1].pc = "await2"
  /\ Returned(2)
  /\ turns[1].initial_response = turns[2].initial_response
  /\ turns[2].outcome.tools_used = <<>>
  /\ turns[1].requested_tool_ids # <<>>
  /\ ops > 0

(* C17: get, update and delete of a tool or an agent under an id that is not
   in the store are answered with status 404 and leave both stores as they
   were; a chat with an unknown agent id is answered with 404 whatever the
   other preconditions would say, and no model invocation is made for it. *)
C17_MissingIdIsNotFound ==
  [][/\ \A tool_id \in (0..tool_uuids) \ DOMAIN tools_db :
          (\/ get_tool(tool_id)
           \/ delete_tool(tool_id)
           \/ \E tool \in ToolInputs : update_tool(tool_id, tool))
            => /\ http_response' = HTTPError(404, ToolNotFound)
               /\ Stores' = Stores
     /\ \A agent_id \in (0..agent_uuids) \ DOMAIN agents_db :
          /\ (\/ get_agent(agent_id)
              \/ delete_agent(agent_id)
              \/ \E agent \in AgentInputs(tool_uuids) : update_agent(agent_id, agent))
               => /\ http_response' = HTTPError(404, AgentNotFound)
                  /\ Stores' = Stores
          /\ \A t \in Turns, user_message \in UserMessages :
               chat_start(t, agent_id, user_message)
                 => /\ turns'[t].pc = "done"
                    /\ turns'[t].outcome = HTTPError(404, AgentNotFound)
                    /\ turns'[t].calls = <<>>
                    /\ Stores' = Stores]_vars

\* the example agent was deleted, a later request on a tool id that is not
\* stored was answered 404, and, with no usable OpenAI key in the
\* environment, the chat with the deleted agent was answered 404, not 400
C17_Witness ==
  \E t \in Turns :
    /\ DOMAIN agents_db = {}
    /\ http_response = HTTPError(404, ToolNotFound)
    /\ ops = 2
    /\ Refused(t)
    /\ turns[t].agent_id = 1
    /\ turns[t].outcome.status_code = 404
    /\ turns[t].calls = <<>>
    /\ KeyMissing(environ.OPENAI_API_KEY, OpenaiPlaceholder)

\* index of the first marker of reply that names the tool (whitespace
\* around the name trimmed, letter case ignored), or 0 when none does
FirstMarker(reply, tool) ==
  LET markers == re_findall(reply)
      naming == {m \in 1..Len(markers) : lower(strip(markers[m])) = lower(tool.name)}
  IN  IF naming = {} THEN 0 ELSE SetMin(naming)

\* index of id in the sequence ids, or 0
IndexOf(ids, id) ==
  LET at == {i \in 1..Len(ids) : ids[i] = id}
  IN  IF at = {} THEN 0 ELSE SetMin(at)

(* C18: tools_used follows the order in which reply1 first names each tool,
   not the order of the agent's tool_ids: when the first marker for tool A
   comes before the first marker for tool B, A's id precedes B's id in the
   requested ids and in tools_used, and A's content block precedes B's in
   the pass-2 prompt. *)
C18_OrderOfFirstOccurrence ==
  \A t \in Turns :
    Pass2Composed(t) =>
      LET requested == turns[t].requested_tool_ids
          reply1 == turns[t].initial_response
      IN  /\ \A a, b \in Elems(requested) :
               (FirstMarker(reply1, tools_db[a]) < FirstMarker(reply1, tools_db[b]))
                 => /\ FirstMarker(reply1, tools_db[a]) > 0
                    /\ IndexOf(requested, a) < IndexOf(requested, b)
                    /\ NextOccurrence(turns[t].calls[2], ContentBlock(tools_db[a]), 1) > 0
                    /\ NextOccurrence(turns[t].calls[2], ContentBlock(tools_db[a]), 1)
                         < NextOccurrence(turns[t].calls[2], ContentBlock(tools_db[b]), 1)
          /\ Returned(t) => turns[t].outcome.tools_used = requested

\* reply1 named tool 2 first and tool 1 second, the agent lists tool 1
\* before tool 2, and the turn returned tools_used = [2, 1]
C18_Witness ==
  \E t \in Turns :
    /\ Returned(t)
    /\ IndexOf(turns[t].agent.tool_ids, 1) > 0
    /\ IndexOf(turns[t].agent.tool_ids, 1) < IndexOf(turns[t].agent.tool_ids, 2)
    /\ FirstMarker(turns[t].initial_response, tools_db[2]) = 1
    /\ FirstMarker(turns[t].initial_response, tools_db[1]) = 2
    /\ turns[t].outcome.tools_used = <<2, 1>>

(* C19: in every successful chat result tools_used_names has exactly one
   entry per entry of tools_used, in the same order, each the name of the
   tool with that id, whatever update_tool and delete_tool requests were
   served while the turn waited for the model. *)
C19_NamesAlignWithToolsUsed ==
  \A t \in Turns :
    Returned(t) =>
      LET tools_used == turns[t].outcome.tools_used
          names == turns[t].outcome.tools_used_names
      IN  /\ Len(names) = Len(tools_used)
          /\ \A i \in 1..Len(tools_used) :
               tools_used[i] \in DOMAIN tools_db
                 => names[i] = tools_db[tools_used[i]].name

StartsWith(s, prefix) ==
  Len(prefix) <= Len(s) /\ SubSeq(s, 1, Len(prefix)) = prefix

EndsWith(s, suffix) ==
  Len(suffix) <= Len(s) /\ SubSeq(s, Len(s) - Len(suffix) + 1, Len(s)) = suffix

\* every call so far came back with a completion
AllCompleted(t) ==
  /\ Len(turns[t].results) = Len(turns[t].calls)
  /\ \A i \in 1..Len(turns[t].results) : turns[t].results[i] = "text"

\* the stored agent is no longer the record the turn read
AgentChanged(t) ==
  \/ turns[t].agent_id \notin DOMAIN agents_db
  \/ agents_db[turns[t].agent_id] # turns[t].agent

(* C20: a chat turn works on the agent record it read when it started: when
   the agent is updated or deleted while the turn waits for the model, the
   turn does not fail for it, the pass-2 prompt opens with the same system
   prompt as the pass-1 prompt and carries the same user message, and the
   resolved ids are among the tool_ids the pass-1 prompt was composed
   over. *)
C20_TurnKeepsAgentSnapshot ==
  \A t \in Turns :
    /\ Pass1Composed(t) =>
         /\ StartsWith(turns[t].calls[1], turns[t].agent.system_prompt)
         /\ EndsWith(turns[t].calls[1],
                     UserCue \o turns[t].user_message \o AssistantCue)
    /\ Pass2Composed(t) =>
         /\ StartsWith(turns[t].calls[2],
                       turns[t].agent.system_prompt \o <<"\n", "\n", "[">>)
         /\ EndsWith(turns[t].calls[2],
                     NaturalInstruction \o UserCue \o turns[t].user_message
                       \o AssistantCue)
    /\ Elems(turns[t].requested_tool_ids) \subseteq Elems(turns[t].agent.tool_ids)
    /\ Elems(turns[t].requested_tool_ids) \subseteq Elems(turns[t].disclosed)
    /\ (turns[t].pc = "done" /\ Pass1Composed(t) /\ AllCompleted(t))
         => turns[t].outcome.kind = "ok"

\* the agent was given another system prompt, or was deleted, while the turn
\* waited for the model, and the turn returned after two invocations
C20_Witness ==
  \E t \in Turns :
    /\ Returned(t)
    /\ Pass2Composed(t)
    /\ AgentChanged(t)
    /\ turns[t].agent_id \in DOMAIN agents_db =>
         agents_db[turns[t].agent_id].system_prompt # turns[t].agent.system_prompt
    /\ turns[t].outcome.full_prompt = turns[t].calls[2]

====
